---- MODULE Spec2Model ----
(***************************************************************************)
(* Time-tracking session lifecycle of mercor_time_tracking.                *)
(*                                                                         *)
(* Server side: the TimeEntry collection and the Express handlers          *)
(* startTimeTracking, stopTimeTracking and getActiveTimeEntries, each an   *)
(* async function whose awaits are the points where other requests may     *)
(* run.  A handler works on its own in-memory mongoose document; save()    *)
(* of an existing document writes the paths that were modified on that     *)
(* document to the stored one.                                             *)
(***************************************************************************)
EXTENDS Integers, Sequences, FiniteSets, TLC

\* ---------------------------------------------------------------- bounds
MaxTime == 2
MaxEntries == 2
MaxCalls == 3
MaxSessions == 1

\* ------------------------------------------------------------ static data
Employees == {"e1", "e2"}
NoTime == -1
Descriptions == {"", "d"}
Reqs == {"r1", "r2"}

\* Project documents: p1 has screenshot capture enabled, p2 has not and
\* lists only e2; "p0" is an id no project has.
ProjectIds == {"p1", "p2"}
ProjectInputs == {"p0", "p1", "p2"}
Project ==
  [p \in ProjectIds |->
     IF p = "p1"
     THEN [employees |-> {"e1", "e2"}, screenshotEnabled |-> TRUE]
     ELSE [employees |-> {"e2"}, screenshotEnabled |-> FALSE]]

\* Task documents: t1 belongs to p1, t2 to p2; "t0" is an id no task has.
TaskIds == {"t1", "t2"}
TaskInputs == {"t0", "t1", "t2"}
Task ==
  [t \in TaskIds |->
     IF t = "t1"
     THEN [projectId |-> "p1", employees |-> {"e1", "e2"}]
     ELSE [projectId |-> "p2", employees |-> {"e2"}]]

VARIABLES
  now,        \* Date.now(), in ticks
  entries,    \* the TimeEntry collection; a document's _id is its index
  shots,      \* number of Screenshot documents saved
  req,        \* per request slot: the handler's position and locals
  calls,      \* number of requests received so far
  \* the desktop agent (one Electron process, employee AgentEmployee)
  proc,                \* Application: "off", "api_init", "tt_init", "ready"
  store,               \* electron-store (durable): auth_token, user, activeTimeEntry
  activeEntry,         \* TimeTrackingService.activeEntry (NoDoc: null)
  screenshotInterval,  \* TimeTrackingService.screenshotInterval: 0 (null) or the
                       \* period of the timer that is set
  timers,              \* number of interval timers alive in the process
  isInitialized,       \* TimeTrackingService.isInitialized
  op,                  \* the IPC operation awaiting the API: "none", "starting", ...
  capturing,           \* ids of the entries with a captureScreenshot() in flight,
                       \* taking the screenshot
  uploading,           \* ... holding the screenshot, awaiting its upload
  \* history of the captures of this process
  afterFailure,        \* "no"; how the last captureScreenshot() failed:
                       \* "capture" (no screenshot), "unreachable" or
                       \* "rejected" (the upload); "ticked": a tick began
                       \* another capture after a failure
  \* history
  hist,                \* what the last launch found
  stoppedOk,           \* ids for which stopTracking returned successfully
  lateCaptures,        \* ids for which a capture began after that
  rearmed,             \* startScreenshotCapture was called with the timer set
  \* the employees of the server
  employees,           \* the Employee collection, in order of insertion
  ereq                 \* per request slot: the employee handler's position

srvVars == <<now, entries, shots, req, calls>>
empVars == <<employees, ereq>>
timerVars == <<screenshotInterval, timers, rearmed>>
agentVars == <<proc, store, activeEntry, screenshotInterval, timers, isInitialized,
               op, capturing, uploading, afterFailure, hist, stoppedOk,
               lateCaptures, rearmed>>
capVars == <<capturing, uploading, afterFailure>>
vars == <<now, entries, shots, req, calls,
          proc, store, activeEntry, screenshotInterval, timers, isInitialized,
          op, capturing, uploading, afterFailure, hist, stoppedOk,
          lateCaptures, rearmed, employees, ereq>>

\* ------------------------------------------------------- TimeEntry model

\* null (no document); a stored document's id is never 0.
NoDoc ==
  [id |-> 0, employeeId |-> "none", projectId |-> "none", taskId |-> "none",
   startTime |-> 0, endTime |-> NoTime, duration |-> 0, description |-> "",
   isActive |-> FALSE, screenshots |-> <<>>]

\* new TimeEntry({...}) with the schema defaults (duration 0, no endTime).
NewTimeEntry(id, e, p, t, d, at) ==
  [id |-> id, employeeId |-> e, projectId |-> p, taskId |-> t,
   startTime |-> at, endTime |-> NoTime, duration |-> 0, description |-> d,
   isActive |-> TRUE, screenshots |-> <<>>]

\* TimeEntrySchema.pre('save')
PreSave_AlwaysNow(doc, at) ==
  IF doc.endTime # NoTime
  THEN [doc EXCEPT !.duration = at - doc.startTime, !.isActive = FALSE]
  ELSE IF doc.isActive
       THEN [doc EXCEPT !.duration = at - doc.startTime]
       ELSE doc

PreSave(doc, at) ==
  IF doc.endTime # NoTime
  THEN [doc EXCEPT !.duration = doc.endTime - doc.startTime, !.isActive = FALSE]
  ELSE IF doc.isActive
       THEN [doc EXCEPT !.duration = at - doc.startTime]
       ELSE doc

\* TimeEntrySchema.methods.stop, up to its save()
stop(doc, at) ==
  [doc EXCEPT !.endTime = at, !.isActive = FALSE, !.duration = at - doc.startTime]

\* TimeEntrySchema.methods.addScreenshot, up to its save()
addScreenshot(doc, sid) ==
  IF \E k \in 1..Len(doc.screenshots) : doc.screenshots[k] = sid
  THEN doc
  ELSE [doc EXCEPT !.screenshots = Append(@, sid)]

\* TimeEntrySchema.methods.updateDescription, up to its save()
updateDescription(doc, d) == [doc EXCEPT !.description = d]

\* save() of a document that is already stored: the paths whose value differs
\* from the one the document was loaded (or last saved) with are written to
\* the stored document; pushed array elements are appended to the stored array.
SaveUpdate_WithoutIsActive(stored, orig, doc) ==
  [stored EXCEPT
     !.endTime = IF doc.endTime # orig.endTime THEN doc.endTime ELSE @,
     !.duration = IF doc.duration # orig.duration THEN doc.duration ELSE @,
     !.description = IF doc.description # orig.description THEN doc.description ELSE @,
     !.screenshots = @ \o SubSeq(doc.screenshots, Len(orig.screenshots) + 1,
                                 Len(doc.screenshots))]

SaveUpdate(stored, orig, doc) ==
  [stored EXCEPT
     !.endTime = IF doc.endTime # orig.endTime THEN doc.endTime ELSE @,
     !.isActive = IF doc.isActive # orig.isActive THEN doc.isActive ELSE @,
     !.duration = IF doc.duration # orig.duration THEN doc.duration ELSE @,
     !.description = IF doc.description # orig.description THEN doc.description ELSE @,
     !.screenshots = @ \o SubSeq(doc.screenshots, Len(orig.screenshots) + 1,
                                 Len(doc.screenshots))]

EntryIds(es) == 1..Len(es)

\* TimeEntrySchema.statics.findActiveEntries(employeeId): the ids of the
\* documents matching { isActive: true, employeeId }.
findActiveEntries_All(es, e) ==
  {i \in EntryIds(es) : es[i].employeeId = e}

findActiveEntries(es, e) ==
  {i \in EntryIds(es) : es[i].isActive /\ es[i].employeeId = e}

\* TimeEntry.findOne({ employeeId, isActive: true }) in startTimeTracking:
\* the ids of the matching documents (empty: findOne returns null).
FindOneActive_NoCheck(es, e) == {}

FindOneActive(es, e) ==
  {i \in EntryIds(es) : es[i].employeeId = e /\ es[i].isActive}

\* TimeEntry.findOne({ _id, employeeId, isActive: true }) in stopTimeTracking
FindOneActiveById_AnyState(es, id, e) ==
  {i \in EntryIds(es) : i = id /\ es[i].employeeId = e}

FindOneActiveById_AnyOwner(es, id, e) ==
  {i \in EntryIds(es) : i = id /\ es[i].isActive}

FindOneActiveById(es, id, e) ==
  {i \in EntryIds(es) : i = id /\ es[i].employeeId = e /\ es[i].isActive}

\* ------------------------------------------------------------- requests

IdleReq ==
  [pc |-> "idle", kind |-> "none", employeeId |-> "none", projectId |-> "none",
   taskId |-> "none", description |-> "", timeEntryId |-> 0,
   docId |-> 0, doc |-> NoDoc, status |-> 0, data |-> {}, at |-> 0]

Free(r) == req[r].pc \in {"idle", "done"}

\* The status of a response to a handler that threw.
ServerError == 500

\* The response ends the handler: its inputs go out of scope.
Respond(r, code, rec) ==
  req' = [req EXCEPT ![r] = [rec EXCEPT !.pc = "done", !.status = code,
                                        !.projectId = "none", !.taskId = "none",
                                        !.description = ""]]

\* The requests as the router hands them to the handlers (req.user.userId
\* from the token, req.body).
StartReq(e, p, t, d) ==
  [IdleReq EXCEPT !.pc = "s_check", !.kind = "start", !.employeeId = e,
                  !.projectId = p, !.taskId = t, !.description = d]

StopReq(e, id, d) ==
  [IdleReq EXCEPT !.pc = "p_find", !.kind = "stop", !.employeeId = e,
                  !.timeEntryId = id, !.description = d]

ActiveReq(e) ==
  [IdleReq EXCEPT !.pc = "g_find", !.kind = "active", !.employeeId = e]

\* ---- POST /time-tracking/start

CallStart(r, e, p, t, d) ==
  /\ Free(r)
  /\ calls < MaxCalls
  /\ req' = [req EXCEPT ![r] = StartReq(e, p, t, d)]
  /\ calls' = calls + 1
  /\ UNCHANGED <<now, entries, shots, agentVars, empVars>>

\* const activeEntry = await TimeEntry.findOne(...); if (activeEntry) -> 400
StartCheckActive(r) ==
  /\ req[r].pc = "s_check"
  /\ IF FindOneActive(entries, req[r].employeeId) # {}
     THEN Respond(r, 400, req[r])
     ELSE req' = [req EXCEPT ![r].pc = "s_project"]
  /\ UNCHANGED <<now, entries, shots, calls, agentVars, empVars>>

\* const project = await Project.findById(projectId); 404 / 403
StartFindProject(r) ==
  /\ req[r].pc = "s_project"
  /\ IF req[r].projectId \notin ProjectIds
     THEN Respond(r, 404, req[r])
     ELSE IF req[r].employeeId \notin Project[req[r].projectId].employees
          THEN Respond(r, 403, req[r])
          ELSE req' = [req EXCEPT ![r].pc = "s_task"]
  /\ UNCHANGED <<now, entries, shots, calls, agentVars, empVars>>

\* const task = await Task.findById(taskId); 404 / 403
StartFindTask(r) ==
  /\ req[r].pc = "s_task"
  /\ IF req[r].taskId \notin TaskIds
     THEN Respond(r, 404, req[r])
     ELSE IF req[r].employeeId \notin Task[req[r].taskId].employees
          THEN Respond(r, 403, req[r])
          ELSE req' = [req EXCEPT ![r].pc = "s_save"]
  /\ UNCHANGED <<now, entries, shots, calls, agentVars, empVars>>

\* new TimeEntry({... startTime: new Date() ...}); await timeEntry.save()
StartSave(r) ==
  /\ req[r].pc = "s_save"
  /\ Len(entries) < MaxEntries
  /\ LET doc == PreSave(NewTimeEntry(Len(entries) + 1, req[r].employeeId, req[r].projectId,
                                     req[r].taskId, req[r].description, now),
                        now)
     IN /\ entries' = Append(entries, doc)
        /\ req' = [req EXCEPT ![r].doc = doc, ![r].docId = Len(entries) + 1,
                              ![r].pc = IF Project[req[r].projectId].screenshotEnabled
                                        THEN "s_capture" ELSE "s_notify"]
  /\ UNCHANGED <<now, shots, calls, agentVars, empVars>>

\* screenshotService.captureScreenshot(...) returns an id or null;
\* if (screenshotId) await timeEntry.addScreenshot(screenshotId)
StartCapture(r) ==
  /\ req[r].pc = "s_capture"
  /\ \E captured \in BOOLEAN :
       IF captured
       THEN LET sid == shots + 1
                doc == PreSave(addScreenshot(req[r].doc, sid), now)
                id  == req[r].docId
            IN /\ shots' = sid
               /\ entries' = [entries EXCEPT ![id] = SaveUpdate(@, req[r].doc, doc)]
               /\ req' = [req EXCEPT ![r].doc = doc, ![r].pc = "s_notify"]
       ELSE /\ req' = [req EXCEPT ![r].pc = "s_notify"]
            /\ UNCHANGED <<entries, shots>>
  /\ UNCHANGED <<now, calls, agentVars, empVars>>

\* Employee.findById, the notification email, res.status(201).json(...).
\* The lookup is a database call that may reject: the handler then ends with
\* the exception (answered as a server error), with nothing undone.
StartNotify(r) ==
  /\ req[r].pc = "s_notify"
  /\ \E thrown \in BOOLEAN :
       IF thrown
       THEN Respond(r, ServerError, req[r])
       ELSE Respond(r, 201, [req[r] EXCEPT !.data = {req[r].doc}])
  /\ UNCHANGED <<now, entries, shots, calls, agentVars, empVars>>

\* ---- POST /time-tracking/stop

CallStop(r, e, id, d) ==
  /\ Free(r)
  /\ calls < MaxCalls
  /\ req' = [req EXCEPT ![r] = StopReq(e, id, d)]
  /\ calls' = calls + 1
  /\ UNCHANGED <<now, entries, shots, agentVars, empVars>>

\* const timeEntry = await TimeEntry.findOne({_id, employeeId, isActive: true})
StopFind(r) ==
  /\ req[r].pc = "p_find"
  /\ LET found == FindOneActiveById(entries, req[r].timeEntryId, req[r].employeeId)
     IN IF found = {}
        THEN Respond(r, 404, req[r])
        ELSE req' = [req EXCEPT ![r].docId = req[r].timeEntryId,
                                ![r].doc = entries[req[r].timeEntryId],
                                ![r].pc = "p_stop"]
  /\ UNCHANGED <<now, entries, shots, calls, agentVars, empVars>>

\* await timeEntry.stop()
StopStop(r) ==
  /\ req[r].pc = "p_stop"
  /\ LET doc == PreSave(stop(req[r].doc, now), now)
         id  == req[r].docId
     IN /\ entries' = [entries EXCEPT ![id] = SaveUpdate(@, req[r].doc, doc)]
        /\ req' = [req EXCEPT ![r].doc = doc, ![r].at = now,
                              ![r].pc = IF req[r].description # ""
                                        THEN "p_describe" ELSE "p_notify"]
  /\ UNCHANGED <<now, shots, calls, agentVars, empVars>>

\* if (description) await timeEntry.updateDescription(description)
StopDescribe(r) ==
  /\ req[r].pc = "p_describe"
  /\ LET doc == PreSave(updateDescription(req[r].doc, req[r].description), now)
         id  == req[r].docId
     IN /\ entries' = [entries EXCEPT ![id] = SaveUpdate(@, req[r].doc, doc)]
        /\ req' = [req EXCEPT ![r].doc = doc, ![r].pc = "p_notify"]
  /\ UNCHANGED <<now, shots, calls, agentVars, empVars>>

\* the lookups for the notification, the email, res.json(...)
StopNotify(r) ==
  /\ req[r].pc = "p_notify"
  /\ Respond(r, 200, [req[r] EXCEPT !.data = {req[r].doc}])
  /\ UNCHANGED <<now, entries, shots, calls, agentVars, empVars>>

\* ---- GET /time-tracking/active

CallGetActive(r, e) ==
  /\ Free(r)
  /\ calls < MaxCalls
  /\ req' = [req EXCEPT ![r] = ActiveReq(e)]
  /\ calls' = calls + 1
  /\ UNCHANGED <<now, entries, shots, agentVars, empVars>>

\* const timeEntries = await TimeEntry.findActiveEntries(employeeId): the
\* stored documents, as stored.  `at` is the time of the read.
GetActiveFind(r) ==
  /\ req[r].pc = "g_find"
  /\ req' = [req EXCEPT ![r].data = {entries[i] : i \in findActiveEntries(entries, req[r].employeeId)},
                        ![r].at = now, ![r].pc = "g_respond"]
  /\ UNCHANGED <<now, entries, shots, calls, agentVars, empVars>>

\* the second find, the populate (both discarded) and res.json({data: timeEntries})
GetActiveRespond(r) ==
  /\ req[r].pc = "g_respond"
  /\ Respond(r, 200, req[r])
  /\ UNCHANGED <<now, entries, shots, calls, agentVars, empVars>>

\* ---- time

Tick ==
  /\ now < MaxTime
  /\ now' = now + 1
  /\ UNCHANGED <<entries, shots, req, calls, agentVars, empVars>>

\* ---------------------------------------------------- Employee model

\* An email is a sequence of characters; the alphabet of the inputs.
Lower(c) == IF c = "A" THEN "a" ELSE IF c = "B" THEN "b" ELSE c

\* String.prototype.toLowerCase
ToLowerCase(str) == [i \in 1..Len(str) |-> Lower(str[i])]

\* String.prototype.trim
RECURSIVE Trim(_)
Trim(str) ==
  IF str = <<>> THEN str
  ELSE IF Head(str) = " " THEN Trim(Tail(str))
  ELSE IF str[Len(str)] = " " THEN Trim(SubSeq(str, 1, Len(str) - 1))
  ELSE str

\* email: { lowercase: true, trim: true } and the pre('save') hook
StoredEmail(email) == Trim(ToLowerCase(email))

EmailInputs == {<<"a">>, <<"A">>, <<"A", " ">>, <<"b">>}

\* The Team and SharedSettings documents; "team0" and "set0" are ids no
\* document has.
Teams == {"team1"}
TeamInputs == {"team0", "team1"}
SharedSettingsIds == {"set1"}
SharedSettingsInputs == {"set0", "set1"}

\* new Employee({...}): password is set by registerEmployee only
NewEmployee(email, teamId, sharedSettingsId, password) ==
  [email |-> StoredEmail(email), teamId |-> teamId,
   sharedSettingsId |-> sharedSettingsId, password |-> password]

\* The collection has a document with the email, as the schema stores it.
HasEmail(es, email) == \E i \in 1..Len(es) : es[i].email = StoredEmail(email)

\* EmployeeSchema.statics.findByEmail: findOne({ email:
\* email.toLowerCase().trim() }); the indexes of the documents found
findByEmail_AsGiven(es, email) ==
  {i \in 1..Len(es) : es[i].email = email}

findByEmail(es, email) ==
  {i \in 1..Len(es) : es[i].email = Trim(ToLowerCase(email))}

\* employee.save() of a new document: validation (password is required),
\* then the insert, which the unique index on email rejects for an email
\* the collection has.  "ok", or the error thrown.
SaveEmployee(es, doc) ==
  IF ~doc.password THEN "ValidationError"
  ELSE IF HasEmail(es, doc.email) THEN "DuplicateKey"
  ELSE "ok"

IdleEmployeeReq ==
  [pc |-> "idle", kind |-> "none", email |-> <<>>, teamId |-> "none",
   sharedSettingsId |-> "none", status |-> 0, had |-> FALSE]

EmployeeFree(r) == ereq[r].pc \in {"idle", "done"}

EmployeeRespond(r, code) ==
  ereq' = [ereq EXCEPT ![r].pc = "done", ![r].status = code]

\* ---- POST /employee (createEmployee)

CallCreateEmployee(r, email, teamId, sharedSettingsId) ==
  /\ EmployeeFree(r)
  /\ calls < MaxCalls
  /\ calls' = calls + 1
  /\ ereq' = [ereq EXCEPT ![r] =
               [IdleEmployeeReq EXCEPT
                  !.pc = "c_email", !.kind = "create", !.email = email,
                  !.teamId = teamId, !.sharedSettingsId = sharedSettingsId,
                  !.had = HasEmail(employees, email)]]
  /\ UNCHANGED <<now, entries, shots, req, agentVars, employees>>

\* const existingEmployee = await Employee.findByEmail(email) -> 400
CreateCheckEmail(r) ==
  /\ ereq[r].pc = "c_email"
  /\ IF findByEmail(employees, ereq[r].email) # {}
     THEN EmployeeRespond(r, 400)
     ELSE ereq' = [ereq EXCEPT ![r].pc = "c_team"]
  /\ UNCHANGED <<srvVars, agentVars, employees>>

\* const team = await Team.findById(teamId) -> 404
CreateFindTeam(r) ==
  /\ ereq[r].pc = "c_team"
  /\ IF ereq[r].teamId \notin Teams
     THEN EmployeeRespond(r, 404)
     ELSE ereq' = [ereq EXCEPT ![r].pc = "c_settings"]
  /\ UNCHANGED <<srvVars, agentVars, employees>>

\* const sharedSettings = await SharedSettings.findById(...) -> 404
CreateFindSettings(r) ==
  /\ ereq[r].pc = "c_settings"
  /\ IF ereq[r].sharedSettingsId \notin SharedSettingsIds
     THEN EmployeeRespond(r, 404)
     ELSE ereq' = [ereq EXCEPT ![r].pc = "c_save"]
  /\ UNCHANGED <<srvVars, agentVars, employees>>

\* new Employee({ name, email, teamId, ... }) without a password;
\* await employee.save(); then the invitation and team.addMember -> 201.
\* An error thrown goes to the error handler.
CreateSave(r) ==
  /\ ereq[r].pc = "c_save"
  /\ LET doc == NewEmployee(ereq[r].email, ereq[r].teamId,
                            ereq[r].sharedSettingsId, FALSE)
     IN IF SaveEmployee(employees, doc) = "ok"
        THEN /\ employees' = Append(employees, doc)
             /\ EmployeeRespond(r, 201)
        ELSE /\ EmployeeRespond(r, ServerError)
             /\ UNCHANGED employees
  /\ UNCHANGED <<srvVars, agentVars>>

\* ---- POST /employee/register (registerEmployee)

CallRegisterEmployee(r, email) ==
  /\ EmployeeFree(r)
  /\ calls < MaxCalls
  /\ calls' = calls + 1
  /\ ereq' = [ereq EXCEPT ![r] =
               [IdleEmployeeReq EXCEPT
                  !.pc = "r_email", !.kind = "register", !.email = email,
                  !.had = HasEmail(employees, email)]]
  /\ UNCHANGED <<now, entries, shots, req, agentVars, employees>>

\* const existingEmployee = await Employee.findByEmail(email) -> 400
RegisterCheckEmail(r) ==
  /\ ereq[r].pc = "r_email"
  /\ IF findByEmail(employees, ereq[r].email) # {}
     THEN EmployeeRespond(r, 400)
     ELSE ereq' = [ereq EXCEPT ![r].pc = "r_save"]
  /\ UNCHANGED <<srvVars, agentVars, employees>>

\* Team.findOne(), SharedSettings.findOne() (a document of each exists), new
\* Employee({ ..., password, ... }), await employee.save() -> 201; the catch
\* answers 500.
RegisterSave(r) ==
  /\ ereq[r].pc = "r_save"
  /\ LET doc == NewEmployee(ereq[r].email, CHOOSE t \in Teams : TRUE,
                            CHOOSE x \in SharedSettingsIds : TRUE, TRUE)
     IN IF SaveEmployee(employees, doc) = "ok"
        THEN /\ employees' = Append(employees, doc)
             /\ EmployeeRespond(r, 201)
        ELSE /\ EmployeeRespond(r, 500)
             /\ UNCHANGED employees
  /\ UNCHANGED <<srvVars, agentVars>>

\* ------------------------------------------------------ the desktop agent

\* The employee logged in on the agent: a member of both projects.
AgentEmployee == "e2"
AgentReq == "r1"
OtherReq == "r2"
DefaultInterval == 300000

\* settings.screenshotInterval in the store: the default of a new store; the
\* values a 'settings:set' call can write (absent, below, at and above the
\* minimum the Project schema has for its own interval).
StoredInterval == 300000
NoInterval == -1
MinInterval == 60000
IntervalInputs == {NoInterval, 1000, MinInterval, StoredInterval}

NoLaunch ==
  [cachedId |-> 0, stopped |-> FALSE, token |-> FALSE, reachable |-> FALSE,
   authOk |-> FALSE, fresh |-> FALSE, entries |-> 0]

\* startScreenshotCapture(): if (this.screenshotInterval) return
AlreadyRunning_Never(timer) == FALSE

AlreadyRunning(timer) == timer # 0

\* startScreenshotCapture(): the timer handle after the call
IntervalOf_Default(settings) == DefaultInterval

\* const interval = settings?.screenshotInterval ?? 300000
IntervalOf(settings) ==
  IF settings.screenshotInterval = NoInterval
  THEN DefaultInterval
  ELSE settings.screenshotInterval

startScreenshotCapture(timer, settings) ==
  IF AlreadyRunning(timer) THEN timer ELSE IntervalOf(settings)

\* startScreenshotCapture() on the service: setInterval makes a new timer
\* unless the call returned early.
StartTimer ==
  /\ screenshotInterval' =
       startScreenshotCapture(screenshotInterval, store.settings)
  /\ timers' = IF AlreadyRunning(screenshotInterval) THEN timers ELSE timers + 1
  /\ rearmed' = (rearmed \/ screenshotInterval # 0)

\* clearInterval(handle) ends the timer the handle names.
Cleared_Always(before, after, n) == n - 1

Cleared(before, after, n) ==
  IF before # 0 /\ after = 0 THEN n - 1 ELSE n

\* stopScreenshotCapture(): the timer after the call
stopScreenshotCapture(timer) == 0

\* initialize(): whether the entry loaded from the store resumes the capture
ResumeOnInitialize_Never(cached) == FALSE

ResumeOnInitialize(cached) == cached.id # 0 /\ cached.isActive

\* stopTracking() after the API call succeeded: the in-memory state it leaves
StopTrackingState_Keep(prev, data, timer) ==
  [activeEntry |-> prev, screenshotInterval |-> timer]

StopTrackingState(prev, data, timer) ==
  [activeEntry |-> NoDoc, screenshotInterval |-> stopScreenshotCapture(timer)]

\* response.data[0] || null of GET /time-tracking/active
FirstOf(data) ==
  IF data = {} THEN NoDoc
  ELSE CHOOSE d \in data : \A x \in data : d.id <= x.id

\* app.whenReady -> onReady: a new process, its services just constructed.
Launch ==
  /\ proc = "off"
  /\ proc' = "api_init"
  /\ hist' = [cachedId |-> IF store.activeTimeEntry.isActive
                           THEN store.activeTimeEntry.id ELSE 0,
              stopped |-> /\ store.activeTimeEntry.isActive
                          /\ ~entries[store.activeTimeEntry.id].isActive,
              token |-> store.auth_token, reachable |-> FALSE,
              authOk |-> FALSE, fresh |-> FALSE, entries |-> Len(entries)]
  /\ UNCHANGED <<empVars, srvVars, store, activeEntry, timerVars,
                 isInitialized, op, capVars, stoppedOk, lateCaptures>>

\* initializeServices: await this.apiService.initialize().  When it throws
\* (the health check failed) the catch of initializeServices ends the
\* initialization of all services.
ApiInitialize(reachable) ==
  /\ proc = "api_init"
  /\ IF ~reachable
     THEN /\ proc' = "ready"
          /\ hist' = [hist EXCEPT !.fresh = TRUE]
          /\ UNCHANGED store
     ELSE \E accepted \in BOOLEAN :
            /\ store' = IF store.auth_token /\ store.user /\ ~accepted
                        THEN [store EXCEPT !.auth_token = FALSE, !.user = FALSE]
                        ELSE store
            /\ proc' = "tt_init"
            /\ hist' = [hist EXCEPT !.reachable = TRUE,
                                    !.authOk = store'.auth_token]
  /\ UNCHANGED <<empVars, srvVars, activeEntry, timerVars,
                 isInitialized, op, capVars, stoppedOk, lateCaptures>>

\* initializeServices: await this.timeTrackingService.initialize()
initialize ==
  /\ proc = "tt_init"
  /\ IF isInitialized
     THEN UNCHANGED <<activeEntry, timerVars, isInitialized>>
     ELSE /\ isInitialized' = TRUE
          /\ IF store.auth_token
             THEN /\ activeEntry' = store.activeTimeEntry
                  /\ IF ResumeOnInitialize(store.activeTimeEntry)
                     THEN StartTimer
                     ELSE UNCHANGED timerVars
             ELSE UNCHANGED <<activeEntry, timerVars>>
  /\ proc' = "ready"
  /\ hist' = [hist EXCEPT !.fresh = TRUE]
  /\ UNCHANGED <<empVars, srvVars, store, op, capVars, stoppedOk, lateCaptures>>

\* before-quit: timeTrackingService.cleanup(), then the process ends and its
\* memory with it; the store stays.
Quit ==
  /\ proc = "ready" /\ op = "none"
  /\ proc' = "off"
  /\ activeEntry' = NoDoc
  /\ screenshotInterval' = stopScreenshotCapture(screenshotInterval)
  /\ timers' = 0
  /\ rearmed' = FALSE
  /\ isInitialized' = FALSE
  /\ capturing' = {}
  /\ uploading' = {}
  /\ afterFailure' = "no"
  /\ hist' = NoLaunch
  /\ UNCHANGED <<empVars, srvVars, store, op, stoppedOk, lateCaptures>>

\* The IPC handlers serve the renderer once the services exist: onReady
\* creates them and the main window before it initializes them.
CanCall == proc # "off" /\ op = "none"

\* ApiService.login, its request answered with a token
Login ==
  /\ CanCall /\ ~store.auth_token
  /\ store' = [store EXCEPT !.auth_token = TRUE, !.user = TRUE]
  /\ hist' = NoLaunch
  /\ UNCHANGED <<empVars, srvVars, proc, activeEntry, timerVars,
                 isInitialized, op, capVars, stoppedOk, lateCaptures>>

\* A call that throws before or at its API request changes nothing.
Throws_ClearsEntry ==
  /\ hist' = NoLaunch
  /\ activeEntry' = NoDoc
  /\ UNCHANGED <<empVars, srvVars, proc, store, timerVars,
                 isInitialized, op, capVars, stoppedOk, lateCaptures>>

Throws ==
  /\ hist' = NoLaunch
  /\ UNCHANGED <<empVars, srvVars, proc, store, activeEntry, timerVars,
                 isInitialized, op, capVars, stoppedOk, lateCaptures>>

\* The API request of the agent reaches the server.
Send(request, what) ==
  /\ req' = [req EXCEPT ![AgentReq] = request]
  /\ op' = what
  /\ hist' = NoLaunch
  /\ UNCHANGED <<empVars, now, entries, shots, calls, proc, store, activeEntry,
                 timerVars, isInitialized, capVars, stoppedOk,
                 lateCaptures>>

Answered == req[AgentReq].pc = "done"

\* ipc 'time-tracking:start' -> startTracking(data), up to the API request
startTracking(p, t, reachable) ==
  /\ CanCall /\ store.auth_token
  /\ Len(entries) < MaxSessions
  /\ IF activeEntry.id # 0 \/ ~reachable
     THEN Throws
     ELSE Send(StartReq(AgentEmployee, p, t, ""), "starting")

\* startTracking from the API response on
startTrackingReturn ==
  /\ op = "starting" /\ Answered
  /\ op' = "none"
  /\ req' = [req EXCEPT ![AgentReq] = IdleReq]
  /\ IF req[AgentReq].status = 201
     THEN /\ activeEntry' = FirstOf(req[AgentReq].data)
          /\ store' = [store EXCEPT !.activeTimeEntry = activeEntry']
          /\ StartTimer
     ELSE UNCHANGED <<activeEntry, store, timerVars>>
  /\ UNCHANGED <<empVars, now, entries, shots, calls, proc, isInitialized, capVars, hist,
                 stoppedOk, lateCaptures>>

\* ipc 'time-tracking:stop' -> stopTracking(timeEntryId), up to the API request
stopTracking(id, reachable) ==
  /\ CanCall /\ store.auth_token
  /\ IF activeEntry.id = 0 \/ activeEntry.id # id \/ ~reachable
     THEN Throws
     ELSE Send(StopReq(AgentEmployee, id, ""), "stopping")

\* stopTracking from the API response on, to its return
stopTrackingReturn ==
  /\ op = "stopping" /\ Answered
  /\ op' = "none"
  /\ req' = [req EXCEPT ![AgentReq] = IdleReq]
  /\ IF req[AgentReq].status = 200
     THEN LET after == StopTrackingState(activeEntry, FirstOf(req[AgentReq].data),
                                         screenshotInterval)
          IN /\ activeEntry' = after.activeEntry
             /\ screenshotInterval' = after.screenshotInterval
             /\ timers' = Cleared(screenshotInterval, after.screenshotInterval, timers)
             /\ UNCHANGED rearmed
             /\ store' = [store EXCEPT !.activeTimeEntry = NoDoc]
             /\ stoppedOk' = stoppedOk \cup {req[AgentReq].timeEntryId}
     ELSE UNCHANGED <<activeEntry, store, timerVars, stoppedOk>>
  /\ UNCHANGED <<empVars, now, entries, shots, calls, proc, isInitialized, capVars, hist,
                 lateCaptures>>

\* ipc 'time-tracking:getActive' -> getActiveEntry(), up to the API request
getActiveEntry(reachable) ==
  /\ CanCall /\ store.auth_token
  /\ IF activeEntry.id # 0 \/ ~reachable
     THEN Throws
     ELSE Send(ActiveReq(AgentEmployee), "getting")

\* getActiveEntry from the API response on
getActiveEntryReturn ==
  /\ op = "getting" /\ Answered
  /\ op' = "none"
  /\ req' = [req EXCEPT ![AgentReq] = IdleReq]
  /\ activeEntry' = FirstOf(req[AgentReq].data)
  /\ UNCHANGED <<empVars, now, entries, shots, calls, proc, store, timerVars, isInitialized,
                 capVars, hist, stoppedOk, lateCaptures>>

\* setInterval(async () => {...}, interval): whether the timer runs its
\* callback when the interval has elapsed, given the captureScreenshot() calls
\* of earlier ticks that have not ended.  setInterval does not await them.
TickGate_AwaitsCaptures(running) == running = {}

TickGate(running) == TRUE

\* The setInterval callback: if (this.activeEntry && this.activeEntry.isActive)
\* await this.captureScreenshot()
TimerTick ==
  /\ timers > 0
  /\ TickGate(capturing \cup uploading)
  /\ activeEntry.id # 0 /\ activeEntry.isActive
  /\ capturing' = capturing \cup {activeEntry.id}
  /\ lateCaptures' = lateCaptures \cup ({activeEntry.id} \cap stoppedOk)
  /\ afterFailure' = IF afterFailure = "no" THEN "no" ELSE "ticked"
  /\ UNCHANGED <<empVars, srvVars, proc, store, activeEntry, timerVars, uploading,
                 isInitialized, op, hist, stoppedOk>>

\* The routes of the API server, under /api/v1.
Routes ==
  {<<"GET", "/health">>,
   <<"POST", "/employee/login">>, <<"GET", "/employee/me">>,
   <<"POST", "/time-tracking/start">>, <<"POST", "/time-tracking/stop">>,
   <<"GET", "/time-tracking/active">>,
   <<"GET", "/time-tracking/analytics/screenshot">>,
   <<"DELETE", "/time-tracking/analytics/screenshot/:id">>}

\* ApiService.uploadScreenshot: this.api.post('/analytics/screenshot/upload')
UploadRoute == <<"POST", "/analytics/screenshot/upload">>

\* The status of the answer to a request for a route: the router's handler
\* answers, or the 404 handler behind the routers.
RouteStatus(route) == IF route \in Routes THEN 200 ELSE 404

\* The id under which the server would record the screenshot of a tick for
\* an entry (start's screenshots are numbered from 1).
TickShotId(id) == 0 - id

\* The catch blocks of captureScreenshot and of the interval callback:
\* console.error only.  The timer handle after them.
OnCaptureError_Stop(timer) == 0

OnCaptureError(timer) == timer

\* A captureScreenshot() call ends in failure.
CaptureFails(how) ==
  /\ afterFailure' = how
  /\ screenshotInterval' = OnCaptureError(screenshotInterval)
  /\ timers' = Cleared(screenshotInterval, screenshotInterval', timers)
  /\ UNCHANGED rearmed

\* captureScreenshot(): const screenshot = await
\* this.screenshotService.captureScreenshot(), which returns the data or null
\* (it catches its own errors); with a screenshot, the upload is sent with
\* this.activeEntry._id, which throws when activeEntry has become null.
captureScreenshot(id) ==
  /\ id \in capturing
  /\ capturing' = capturing \ {id}
  /\ \E screenshot \in BOOLEAN :
       IF screenshot /\ activeEntry.id # 0
       THEN /\ uploading' = uploading \cup {id}
            /\ UNCHANGED <<afterFailure, timerVars>>
       ELSE /\ CaptureFails("capture")
            /\ UNCHANGED uploading
  /\ UNCHANGED <<empVars, srvVars, proc, store, activeEntry, isInitialized, op, hist,
                 stoppedOk, lateCaptures>>

\* captureScreenshot(): await this.apiService.uploadScreenshot(...) returns or
\* throws (any answer that is not a success, or none); the call ends either
\* way, and with it the screenshot it held.
uploadScreenshot(id, reachable) ==
  /\ id \in uploading
  /\ uploading' = uploading \ {id}
  /\ IF reachable /\ RouteStatus(UploadRoute) < 400
     THEN UNCHANGED <<afterFailure, timerVars>>
     ELSE CaptureFails(IF reachable THEN "rejected" ELSE "unreachable")
  /\ UNCHANGED <<empVars, srvVars, proc, store, activeEntry, isInitialized, op, hist,
                 capturing, stoppedOk, lateCaptures>>

\* ipcMain.handle('settings:set'): this.storeService.set(key, value), for the
\* key 'settings' and any value; the services exist once the process runs.
SettingsSet(value) ==
  /\ proc # "off"
  /\ store' = [store EXCEPT !.settings = [screenshotInterval |-> value]]
  /\ UNCHANGED <<empVars, srvVars, proc, activeEntry, timerVars, isInitialized, op,
                 capVars, hist, stoppedOk, lateCaptures>>

\* Another client of the same employee asks the server to stop an entry.
OtherClientStop(id, d) ==
  /\ Free(OtherReq)
  /\ id \in 1..Len(entries) /\ entries[id].isActive
  /\ req' = [req EXCEPT ![OtherReq] = StopReq(AgentEmployee, id, d)]
  /\ UNCHANGED <<now, entries, shots, calls, agentVars, empVars>>

\* ------------------------------------------------------- specifications

Init ==
  /\ now = 0
  /\ entries = <<>>
  /\ shots = 0
  /\ req = [r \in Reqs |-> IdleReq]
  /\ calls = 0
  /\ proc = "off"
  /\ store = [auth_token |-> FALSE, user |-> FALSE, activeTimeEntry |-> NoDoc,
              settings |-> [screenshotInterval |-> StoredInterval]]
  /\ activeEntry = NoDoc
  /\ screenshotInterval = 0
  /\ timers = 0
  /\ rearmed = FALSE
  /\ isInitialized = FALSE
  /\ op = "none"
  /\ capturing = {}
  /\ uploading = {}
  /\ afterFailure = "no"
  /\ hist = NoLaunch
  /\ stoppedOk = {}
  /\ lateCaptures = {}
  /\ employees = <<>>
  /\ ereq = [r \in Reqs |-> IdleEmployeeReq]

Step(r) ==
  \/ StartCheckActive(r)
  \/ StartFindProject(r)
  \/ StartFindTask(r)
  \/ StartSave(r)
  \/ StartCapture(r)
  \/ StartNotify(r)
  \/ StopFind(r)
  \/ StopStop(r)
  \/ StopDescribe(r)
  \/ StopNotify(r)
  \/ GetActiveFind(r)
  \/ GetActiveRespond(r)

Call(r) ==
  \/ \E e \in Employees, p \in ProjectInputs, t \in TaskInputs :
       CallStart(r, e, p, t, "")
  \/ \E e \in Employees, id \in 1..MaxEntries, d \in Descriptions :
       CallStop(r, e, id, d)
  \/ \E e \in Employees : CallGetActive(r, e)

\* Requests of any number of clients, handled concurrently.
Next ==
  \/ \E r \in Reqs : Call(r)
  \/ \E r \in Reqs : Step(r)
  \/ Tick

Spec == Init /\ [][Next]_vars

\* One request at a time: a request is issued only after the previous one
\* has been answered.
NextSeq ==
  \/ Call("r1")
  \/ Step("r1")
  \/ Tick

SpecSeq == Init /\ [][NextSeq]_vars

\* The handlers that save a TimeEntry (start with its addScreenshot, stop
\* with its updateDescription), for concurrent requests of one employee on
\* the project with screenshot capture.
SaveStep(r) ==
  \/ StartCheckActive(r)
  \/ StartFindProject(r)
  \/ StartFindTask(r)
  \/ StartSave(r)
  \/ StartCapture(r)
  \/ StartNotify(r)
  \/ StopFind(r)
  \/ StopStop(r)
  \/ StopDescribe(r)
  \/ StopNotify(r)

NextSaves ==
  \/ \E r \in Reqs : CallStart(r, "e1", "p1", "t1", "")
  \/ \E r \in Reqs, id \in 1..MaxEntries, d \in Descriptions :
       CallStop(r, "e1", id, d)
  \/ \E r \in Reqs : SaveStep(r)
  \/ Tick

SpecSaves == Init /\ [][NextSaves]_vars

EmployeeCall(r) ==
  \/ \E email \in EmailInputs, teamId \in TeamInputs,
        sharedSettingsId \in SharedSettingsInputs :
       CallCreateEmployee(r, email, teamId, sharedSettingsId)
  \/ \E email \in EmailInputs : CallRegisterEmployee(r, email)

EmployeeStep(r) ==
  \/ CreateCheckEmail(r)
  \/ CreateFindTeam(r)
  \/ CreateFindSettings(r)
  \/ CreateSave(r)
  \/ RegisterCheckEmail(r)
  \/ RegisterSave(r)

\* Create and register requests of any number of clients, handled
\* concurrently.
NextEmployee ==
  \/ \E r \in Reqs : EmployeeCall(r)
  \/ \E r \in Reqs : EmployeeStep(r)

SpecEmployee == Init /\ [][NextEmployee]_vars

\* The agent, the server handling its requests, and another client of the
\* same employee.  The renderer issues one IPC call at a time; timer ticks
\* and captures run between the awaits of a call.
NextAgent ==
  \/ Launch
  \/ \E reachable \in BOOLEAN : ApiInitialize(reachable)
  \/ initialize
  \/ Quit
  \/ Login
  \/ \E reachable \in BOOLEAN :
       startTracking("p1", "t1", reachable)
  \/ startTrackingReturn
  \/ \E id \in 1..MaxEntries, reachable \in BOOLEAN : stopTracking(id, reachable)
  \/ stopTrackingReturn
  \/ \E reachable \in BOOLEAN : getActiveEntry(reachable)
  \/ getActiveEntryReturn
  \/ TimerTick
  \/ \E id \in 1..MaxEntries : captureScreenshot(id)
  \/ \E id \in 1..MaxEntries, reachable \in BOOLEAN : uploadScreenshot(id, reachable)
  \/ \E id \in 1..MaxEntries : OtherClientStop(id, "d")
  \/ \E r \in Reqs : Step(r)

SpecAgent == Init /\ [][NextAgent]_vars

\* The agent's sessions on either project and its settings handler, the
\* settings of SpecAgent being the defaults of the store and its project p1;
\* the captures of a tick, which read neither the settings nor the interval,
\* are left out.
NextSettings ==
  \/ Launch
  \/ \E reachable \in BOOLEAN : ApiInitialize(reachable)
  \/ initialize
  \/ Quit
  \/ Login
  \/ \E value \in IntervalInputs : SettingsSet(value)
  \/ \E t \in TaskIds, reachable \in BOOLEAN :
       startTracking(Task[t].projectId, t, reachable)
  \/ startTrackingReturn
  \/ \E id \in 1..MaxEntries, reachable \in BOOLEAN : stopTracking(id, reachable)
  \/ stopTrackingReturn
  \/ \E reachable \in BOOLEAN : getActiveEntry(reachable)
  \/ getActiveEntryReturn
  \/ \E id \in 1..MaxEntries : OtherClientStop(id, "d")
  \/ \E r \in Reqs : Step(r)

SpecSettings == Init /\ [][NextSettings]_vars

\* ================================================================ claims

\* The ids of the stored entries of employee e that are active.
ActiveOf(e) ==
  {i \in 1..Len(entries) : entries[i].employeeId = e /\ entries[i].isActive}

Completes(r) == req[r].pc # "done" /\ req'[r].pc = "done"

\* C1: under concurrent start requests, at most one TimeEntry of an employee
\* is active in every reachable state of the store.  (Violated: two requests
\* that both pass the findOne check before either saves both create an entry.)
C1_AtMostOneActive ==
  \A e \in Employees : Cardinality(ActiveOf(e)) <= 1

\* C2: a start request handled while the employee already has an active entry
\* (an earlier start completed, no stop since) ends with 400, leaves the
\* store as it was, and the store holds exactly one active entry of the
\* employee.
C2_SecondStartConflicts ==
  [][\A r \in Reqs :
       (/\ req[r].kind = "start"
        /\ Completes(r)
        /\ \E i \in ActiveOf(req[r].employeeId) : i # req[r].docId)
       => /\ req'[r].status = 400
          /\ entries' = entries
          /\ Cardinality(ActiveOf(req[r].employeeId)) = 1]_vars

C2_Witness ==
  \E r \in Reqs :
    /\ req[r].kind = "start" /\ req[r].pc = "done" /\ req[r].status = 400
    /\ req[r].docId = 0
    /\ Cardinality(ActiveOf(req[r].employeeId)) = 1

\* C3: once a stored entry has isActive = false, its endTime and duration
\* never change and isActive stays false, under concurrent stop requests and
\* the start request's addScreenshot.  (Violated.)
C3_StoppedIsFinal ==
  [][\A i \in 1..Len(entries) :
       ~entries[i].isActive =>
         /\ entries'[i].endTime = entries[i].endTime
         /\ entries'[i].duration = entries[i].duration
         /\ ~entries'[i].isActive]_vars

\* C4: with requests handled one after the other, a stop request for an
\* active entry of the requester goes on to stop it and ends with 200; a stop
\* request for an entry that is already stopped ends with 404 and leaves the
\* store unchanged; a stopped entry keeps its endTime and duration.
C4_StopTwice ==
  [][/\ \A r \in Reqs :
          (req[r].kind = "stop" /\ req[r].pc = "p_find" /\ req'[r].pc # "p_find") =>
            IF req[r].timeEntryId \in ActiveOf(req[r].employeeId)
            THEN req'[r].pc # "done"
            ELSE req'[r].pc = "done" /\ req'[r].status = 404 /\ entries' = entries
     /\ \A r \in Reqs :
          (req[r].kind = "stop" /\ req[r].pc # "p_find" /\ Completes(r)) =>
            req'[r].status = 200
     /\ \A i \in 1..Len(entries) :
          ~entries[i].isActive =>
            /\ entries'[i].endTime = entries[i].endTime
            /\ entries'[i].duration = entries[i].duration
            /\ ~entries'[i].isActive]_vars

\* A second stop of an entry, answered 404, after the first one stopped it.
C4_Witness ==
  \E r \in Reqs :
    /\ req[r].kind = "stop" /\ req[r].pc = "done" /\ req[r].status = 404
    /\ req[r].timeEntryId \in 1..Len(entries)
    /\ entries[req[r].timeEntryId].employeeId = req[r].employeeId
    /\ entries[req[r].timeEntryId].endTime # NoTime
    /\ entries[req[r].timeEntryId].duration > 0

\* C5: a stop request that stopped an entry at time T1 (req.at) returns, and
\* the store holds, endTime = T1, isActive = false and
\* duration = T1 - startTime, also after the updateDescription save.
C5_StoppedDuration ==
  \A r \in Reqs :
    (req[r].kind = "stop" /\ req[r].pc = "done" /\ req[r].status = 200) =>
      LET doc == req[r].doc
          stored == entries[req[r].docId]
      IN /\ req[r].data = {doc}
         /\ doc.endTime = req[r].at /\ ~doc.isActive
         /\ doc.duration = req[r].at - doc.startTime
         /\ stored.startTime = doc.startTime
         /\ stored.endTime = req[r].at /\ ~stored.isActive
         /\ stored.duration = req[r].at - stored.startTime

\* A stop with a description, answered after time passed since the stop.
C5_Witness ==
  \E r \in Reqs :
    /\ req[r].kind = "stop" /\ req[r].pc = "done" /\ req[r].status = 200
    /\ req[r].doc.description = "d"
    /\ req[r].doc.duration > 0
    /\ now > req[r].at

\* C6: an active entry read at time T is returned with
\* duration = T - startTime.  (Violated: the stored duration is the one
\* computed at the entry's last save.)
C6_ActiveDurationIsNowMinusStart ==
  \A r \in Reqs :
    (req[r].kind = "active" /\ req[r].pc = "done") =>
      \A en \in req[r].data : en.duration = req[r].at - en.startTime

\* The last launch found an active entry in the store and its services have
\* finished initializing; no IPC call has been served since.
StartedWithCache ==
  proc = "ready" /\ hist.fresh /\ hist.cachedId # 0

\* C7: after stopTracking(id) returned successfully, no capture for that
\* session begins, whatever the interleaving of timer ticks with the awaits of
\* stopTracking; a capture begun earlier may still be in flight.
C7_NoCaptureAfterStop ==
  lateCaptures = {}

\* stopTracking has returned for a session while a capture of that session,
\* begun by an earlier tick, is still running.
C7_Witness ==
  \E id \in stoppedOk : id \in capturing /\ activeEntry.id = 0

\* C8: when the cached active entry was stopped on the server while the agent
\* was down, initialization clears the cached entry and does not start the
\* capture timer.  (Violated: initialize() never asks the server.)
C8_StoppedOnServerClearsCache ==
  (StartedWithCache /\ hist.reachable /\ hist.authOk /\ hist.stopped) =>
    /\ store.activeTimeEntry.id = 0
    /\ screenshotInterval = 0

\* C9: when the cached active entry is still active on the server (the server
\* was reached and accepted the stored token), the capture timer runs for that
\* same entry after initialization, the agent has sent no request, and the
\* store holds as many entries as at launch.
C9_ResumeWithoutDuplicate ==
  (StartedWithCache /\ hist.reachable /\ hist.authOk /\ ~hist.stopped) =>
    /\ screenshotInterval # 0
    /\ activeEntry.id = hist.cachedId /\ activeEntry.isActive
    /\ op = "none" /\ req[AgentReq] = IdleReq
    /\ Len(entries) = hist.entries

C9_Witness ==
  /\ StartedWithCache /\ hist.reachable /\ hist.authOk /\ ~hist.stopped
  /\ screenshotInterval # 0
  /\ activeEntry.id = hist.cachedId
  /\ entries[hist.cachedId].isActive

\* C10: when the agent starts with a cached active entry and a stored token
\* and the server is unreachable, the capture timer runs once the services
\* have been initialized.  (Violated: the failed health check ends
\* initializeServices before TimeTrackingService.initialize.)
C10_UnreachableStillResumes ==
  (StartedWithCache /\ hist.token /\ ~hist.reachable) =>
    screenshotInterval # 0

\* C11: after a start and a stop of that entry through the agent, the entry is
\* not active in the store, the agent's cache key and in-memory entry do not
\* hold it, no answer of the active query contains it, and getActiveEntry
\* returns null when every entry has been stopped this way.
C11_StartStopThenAbsent ==
  /\ [](\A id \in stoppedOk :
          /\ ~entries[id].isActive
          /\ store.activeTimeEntry.id # id
          /\ activeEntry.id # id
          /\ \A d \in req[AgentReq].data : d.id # id)
  /\ [][(op = "getting" /\ op' = "none") =>
          /\ activeEntry'.id \notin stoppedOk
          /\ (\A i \in 1..Len(entries) : i \in stoppedOk) => activeEntry' = NoDoc]_vars

\* The server has answered the agent's active query, sent after the stop of
\* the only entry returned.
C11_Witness ==
  /\ stoppedOk = {1} /\ Len(entries) = 1
  /\ op = "getting" /\ req[AgentReq].pc = "done" /\ req[AgentReq].status = 200
  /\ req[AgentReq].data = {}
  /\ store.activeTimeEntry = NoDoc

\* C12: a TimeEntry is created only for a project that exists and lists the
\* employee and a task that exists, belongs to that project and lists the
\* employee.  (Violated: the handler never compares task.projectId with
\* projectId.)
C12_StartValidatesProjectAndTask ==
  \A i \in 1..Len(entries) :
    LET en == entries[i]
    IN /\ en.projectId \in ProjectIds
       /\ en.employeeId \in Project[en.projectId].employees
       /\ en.taskId \in TaskIds
       /\ Task[en.taskId].projectId = en.projectId
       /\ en.employeeId \in Task[en.taskId].employees

\* C13: a start request that ends in failure leaves no active TimeEntry that
\* it created.  (Violated: nothing is undone when the handler throws after
\* timeEntry.save().)
C13_FailedStartLeavesNothing ==
  \A r \in Reqs :
    (req[r].kind = "start" /\ req[r].pc = "done" /\ req[r].status # 201) =>
      \/ req[r].docId = 0
      \/ ~entries[req[r].docId].isActive

\* C14: a stop request whose timeEntryId names no entry, an entry of another
\* employee or an entry that is not active ends with 404 at its lookup and
\* leaves every stored entry as it was.
C14_StopNotFound ==
  [][\A r \in Reqs :
       LET id == req[r].timeEntryId
       IN (/\ req[r].kind = "stop" /\ req[r].pc = "p_find" /\ req'[r] # req[r]
           /\ \/ id \notin 1..Len(entries)
              \/ entries[id].employeeId # req[r].employeeId
              \/ ~entries[id].isActive)
          => /\ req'[r].pc = "done" /\ req'[r].status = 404
             /\ req'[r].docId = 0
             /\ entries' = entries]_vars

\* A stop answered 404 for an active entry that belongs to another employee.
C14_Witness ==
  \E r \in Reqs :
    /\ req[r].kind = "stop" /\ req[r].pc = "done" /\ req[r].status = 404
    /\ req[r].timeEntryId \in 1..Len(entries)
    /\ entries[req[r].timeEntryId].isActive
    /\ entries[req[r].timeEntryId].employeeId # req[r].employeeId

\* C15: when the store holds more than one active entry of an employee, the
\* active query surfaces an error instead of an answer to pick from.
\* (Violated: the handler answers 200 with all of them; the agent and the
\* dashboard take data[0].)
C15_DuplicateActiveIsAnError ==
  \A r \in Reqs :
    (req[r].kind = "active" /\ req[r].pc = "done" /\ Cardinality(req[r].data) > 1)
      => req[r].status >= 400

\* C16: an agent process has at most one capture timer, the one its handle
\* names; a call of startScreenshotCapture with the timer set makes no second
\* one and leaves the handle as it was.
C16_OneCaptureTimer ==
  /\ [](timers <= 1 /\ (timers = 1 <=> screenshotInterval # 0))
  /\ [][(screenshotInterval # 0 /\ screenshotInterval' # 0)
          => screenshotInterval' = screenshotInterval /\ timers' = timers]_vars

\* startScreenshotCapture has been called while the timer was set.
C16_Witness ==
  rearmed /\ timers = 1 /\ screenshotInterval # 0

\* The store holds, in the entry's screenshots, the screenshot of a tick.
RecordedTick(es, id) ==
  \E k \in 1..Len(es[id].screenshots) : es[id].screenshots[k] = TickShotId(id)

\* C17: a step in which a captureScreenshot() call ends in failure (no
\* screenshot, or the upload threw) leaves the timer, its handle and the
\* active entry as they were, so the ticks go on.
C17_FailedCaptureKeepsSchedule ==
  [][(/\ proc' = proc
      /\ \/ \E id \in capturing : id \notin capturing' /\ id \notin uploading'
         \/ \E id \in uploading : id \notin uploading')
     => /\ timers' = timers
        /\ screenshotInterval' = screenshotInterval
        /\ activeEntry' = activeEntry]_vars

\* After a failed capture, a tick of the same timer has begun another one.
C17_Witness ==
  /\ afterFailure = "ticked"
  /\ timers = 1 /\ screenshotInterval # 0
  /\ capturing # {}

\* C18: when a captureScreenshot() call that produced a screenshot ends, and
\* the server was reached, the screenshot is in the screenshots of its entry
\* in the store.  (Violated: no route serves the upload, and nothing else
\* records the screenshot.)
C18_TickShotRecorded ==
  [][\A id \in uploading :
       (id \notin uploading' /\ proc' = proc /\ afterFailure' # "unreachable")
       => RecordedTick(entries', id)]_vars

\* C19: after a failed upload the screenshot is still with the agent (the
\* upload is in flight again, or the screenshot is held), unless the store has
\* it.  (Violated: the catch logs the error and the call ends.)
C19_FailedUploadIsKept ==
  afterFailure \in {"unreachable", "rejected"}
  => \E id \in 1..Len(entries) : id \in uploading \/ RecordedTick(entries, id)

\* C20: the interval of a running capture timer is at least 60000 ms, whatever
\* settings.screenshotInterval the store holds.  (Violated: 'settings:set'
\* stores any value and startScreenshotCapture passes it to setInterval.)
C20_IntervalAtLeastFloor ==
  screenshotInterval # 0 => screenshotInterval >= MinInterval

\* C21: a capture timer is set only while the agent holds an active entry of
\* a project with screenshot capture enabled.  (Violated: startTracking
\* starts the timer whatever the project's screenshotSettings are.)
C21_TimerOnlyForEnabledProject ==
  screenshotInterval # 0
  => /\ activeEntry.id # 0 /\ activeEntry.isActive
     /\ Project[activeEntry.projectId].screenshotEnabled

C23_TickOnlyForActiveSession ==
  [][\A id \in 1..Len(entries) :
       (id \in capturing' /\ id \notin capturing) => entries[id].isActive]_vars

\* C24: the interval is read when the timer is made: a step that writes the
\* settings leaves a running timer and its interval as they were, and a timer
\* made later has the interval the settings hold then.
C24_IntervalReadAtStart ==
  [][/\ (store'.settings # store.settings /\ screenshotInterval # 0)
        => (screenshotInterval' = screenshotInterval /\ timers' = timers)
     /\ (screenshotInterval = 0 /\ screenshotInterval' # 0)
        => screenshotInterval' =
             IF store.settings.screenshotInterval = NoInterval
             THEN DefaultInterval
             ELSE store.settings.screenshotInterval]_vars

\* A timer made with an interval written to the settings runs while the
\* settings, written again, hold another.
C24_Witness ==
  /\ timers = 1 /\ screenshotInterval \notin {0, StoredInterval}
  /\ store.settings.screenshotInterval \notin {NoInterval, screenshotInterval}

\* C25: whenever the timer is set and the agent's entry is active, the next
\* tick can begin its capture, whatever captures and uploads of earlier ticks
\* are still running.
C25_TicksNotGatedByCaptures ==
  (timers > 0 /\ activeEntry.id # 0 /\ activeEntry.isActive)
  => ENABLED TimerTick

\* A tick has begun a capture while the upload of an earlier tick's capture
\* is still in flight.
C25_Witness ==
  \E id \in capturing : id \in uploading /\ timers = 1

\* The handle and the timers after a call of stopScreenshotCapture().
StopTimer(timer, n) ==
  [screenshotInterval |-> stopScreenshotCapture(timer),
   timers |-> Cleared(timer, stopScreenshotCapture(timer), n)]

C27_ActiveIffNoEndTime ==
  \A i \in 1..Len(entries) : entries[i].isActive <=> entries[i].endTime = NoTime

\* A stopped entry whose duration was written by a save of a copy loaded
\* before the stop: the saves of two handlers have interleaved.
C27_Witness ==
  \E i \in 1..Len(entries) :
    /\ ~entries[i].isActive /\ entries[i].endTime # NoTime
    /\ entries[i].duration # entries[i].endTime - entries[i].startTime

\* The agent holds an entry that the server has stopped, and no entry of the
\* employee is active on the server: startTracking throws for the entry held,
\* and the stop request for it finds no active entry.
Stuck ==
  /\ proc = "ready" /\ op = "none"
  /\ activeEntry.id # 0 /\ store.activeTimeEntry.id = activeEntry.id
  /\ FindOneActiveById(entries, activeEntry.id, AgentEmployee) = {}
  /\ ActiveOf(AgentEmployee) = {}

\* C28: the agent is never left holding an entry that neither startTracking
\* nor stopTracking can replace or clear.  (Violated: after a stop by another
\* client every start throws locally and every stop is answered 404.)
C28_NeverStuck ==
  ~Stuck

\* C29: when no call is in progress and the agent's in-memory entry is active,
\* the capture timer is set and the cache holds that entry.  (Violated:
\* getActiveEntry's fallback takes the entry from the server and neither
\* starts the timer nor writes the cache.)
C29_ActiveEntryHasTimerAndCache ==
  (proc = "ready" /\ op = "none" /\ activeEntry.id # 0 /\ activeEntry.isActive)
  => /\ screenshotInterval # 0
     /\ store.activeTimeEntry.id = activeEntry.id

\* The in-memory entry, the cached entry and the timer are as they were.
StopFrame ==
  /\ activeEntry' = activeEntry
  /\ store'.activeTimeEntry = store.activeTimeEntry
  /\ screenshotInterval' = screenshotInterval /\ timers' = timers

\* C30: a stopTracking that throws leaves the in-memory entry, the cached
\* entry and the timer as they were: a stop request is sent only for the entry
\* the agent holds, so a call for no entry or another id sends none; a call
\* that throws before its request, and the step that receives an answer other
\* than 200, change none of the three.
C30_FailedStopChangesNothing ==
  [][/\ (op = "none" /\ op' = "stopping")
        => /\ activeEntry.id # 0
           /\ req'[AgentReq].timeEntryId = activeEntry.id
           /\ StopFrame
     /\ (/\ CanCall /\ store.auth_token
         /\ op' = "none" /\ proc' = proc /\ hist' = NoLaunch
         /\ req' = req /\ store' = store)
        => StopFrame
     /\ (op = "stopping" /\ op' = "none" /\ req[AgentReq].status # 200)
        => StopFrame]_vars

\* The server has answered 404 to the stop request for the entry the agent
\* holds, tracks and has cached.
C30_Witness ==
  /\ op = "stopping" /\ req[AgentReq].pc = "done" /\ req[AgentReq].status = 404
  /\ activeEntry.id = req[AgentReq].timeEntryId
  /\ store.activeTimeEntry.id = activeEntry.id
  /\ screenshotInterval # 0

====
